---- MODULE Spec2Model ----
(***************************************************************************)
(* A model of lib/session.js: the SessionStore (session index, user        *)
(* index, socket index, socket queue, eviction sweep) and the Session      *)
(* objects it hands out (set / save / fetch / remove and the faux socket   *)
(* that queues on / emit calls until a real socket arrives).               *)
(*                                                                         *)
(* Time is counted in abstract units; ids, uids, session objects and       *)
(* sockets are positive integers and 0 stands for undefined / null.        *)
(***************************************************************************)
EXTENDS Integers, Sequences, FiniteSets, TLC

\* ------------------------------------------------------------------ bounds
MaxOps == 4          \* calls and events issued from outside
MaxFlows == 3        \* asynchronous calls (createSession(sid)/save/fetch/remove) issued
MaxSessions == 2     \* Session objects constructed
MaxSockets == 1      \* connections that arrive
MaxCalls == 1        \* on / emit calls issued on socket wrappers
MaxTicks == 2        \* clock advances
MaxPending == 2      \* sweeps deferred with process.nextTick at one time
MaxGen == 1          \* ids generated by createUniqueIdentifier

Caps == [ops |-> MaxOps, flows |-> MaxFlows, sessions |-> MaxSessions,
         sockets |-> MaxSockets, calls |-> MaxCalls, ticks |-> MaxTicks,
         pending |-> MaxPending]

\* the bounds of the runs that exercise the socket queue
SockOps == 6
SockFlows == 2
SockSessions == 1
SockSockets == 2
SockCalls == 3
SockTicks == 1
SockPending == 1

SockCaps == [ops |-> SockOps, flows |-> SockFlows, sessions |-> SockSessions,
             sockets |-> SockSockets, calls |-> SockCalls, ticks |-> SockTicks,
             pending |-> SockPending]

\* the bounds of the runs in which createSession traffic triggers sweeps: one
\* more call and one more clock advance, fewer flows and sessions
SweepCaps == [ops |-> MaxOps + 1, flows |-> SockFlows, sessions |-> SockSessions,
              sockets |-> MaxSockets, calls |-> MaxCalls, ticks |-> MaxTicks + 1,
              pending |-> MaxPending]

\* ------------------------------------------------------- program constants
Null == 0            \* undefined / null / a missing field
MaxAge == 3          \* options.maxAge (30 days), in clock units
TenSec == 1          \* the 10 * 1000 ms lastActive throttle, in clock units
Minute == 2          \* the 60 * 1000 ms sweep period, in clock units
StartTime == 5       \* Date.now() when the store is constructed
GenBase == 100       \* generated ids are GenBase + 1, GenBase + 2, ...

PresetIds == {1}     \* session ids clients may already hold in a cookie
Uids == {1}          \* user ids

\* ------------------------------------------------------------------ state
VARIABLES
  now,               \* Date.now()
  db,                \* the persisted records, by id (Null record = absent)
  sessionIndex,      \* sessionIndex: key -> Session object
  userSessionIndex,  \* userSessionIndex: uid -> Session object
  socketIndex,       \* store.socketIndex: sid -> socket
  sess,              \* the Session objects constructed so far
  sockets,           \* per socket, the on / emit calls applied to it
  flows,             \* the asynchronous calls issued so far
  lastRun,           \* cleanupInactiveSessions.lastRun
  sweepPending,      \* sweeps deferred with process.nextTick, not yet run
  sweeps,            \* thresholds of the sweep deletes the store has not executed yet
    nCalls,            \* on / emit calls issued so far
  nGen,              \* ids generated so far
  nOps,              \* calls and events the environment has issued so far
  cap                \* the bounds of this run

vars == <<now, db, sessionIndex, userSessionIndex, socketIndex, sess, sockets,
          flows, lastRun, sweepPending, sweeps, nCalls, nGen, nOps, cap>>

\* ---------------------------------------------------------------- records
\* The key under which `sessionIndex[undefined] = ...` stores its value.
UndefKey == GenBase

NoRec == [id |-> Null, uid |-> Null, lastActive |-> Null, createdOn |-> Null, anonymous |-> FALSE]

\* the literal { anonymous: true }
AnonRec == [id |-> Null, uid |-> Null, lastActive |-> Null, createdOn |-> Null, anonymous |-> TRUE]

GenIds == {GenBase + k : k \in 1..MaxGen}
Ids == PresetIds \cup GenIds
IndexKeys == Ids \cup {UndefKey}

\* JavaScript `a < b` where a may be undefined: undefined < n is false.
JsLt(a, b) == a # Null /\ a < b

\* ------------------------------------------------------- PersistentStore
\* The store (lib/db.js) is outside this file.  Each of its calls takes
\* effect at the step that delivers its callback, and each may fail instead.
\* Records are keyed by id: an insert under an id that is present fails.
\* find({id: sid}) / first({id: sid}): the record or nothing.
StoreFirst(d, id) == IF id \in DOMAIN d THEN d[id] ELSE NoRec

\* remove({id: id})
StoreRemove(d, id) == [k \in DOMAIN d |-> IF k = id THEN NoRec ELSE d[k]]

\* insert(record): stores the record under its id and returns it.
StoreInsert(d, rec) == [d EXCEPT ![rec.id] = rec]

\* remove({$or: [{lastActive: {$lt: threshold}}, {lastActive: {$exists: false}}]})
StoreSweep(d, threshold) ==
  [k \in DOMAIN d |->
     IF d[k] # NoRec /\ (d[k].lastActive = Null \/ d[k].lastActive < threshold)
       THEN NoRec ELSE d[k]]

\* --------------------------------------------------------------- Session
\* function Session(data, store, sockets, rawSockets)
NewSession(data, t) ==
  [data |-> [data EXCEPT !.createdOn = IF @ = Null THEN t ELSE @,
                         !.lastActive = IF @ = Null THEN t ELSE @],
   sid |-> data.id,        \* this.sid
   csid |-> data.id,       \* the closure variable sid the faux socket reads
   bindQueue |-> <<>>,     \* socketWrapper._bindQueue
   emitQueue |-> <<>>,     \* socketWrapper._emitQueue
   armed |-> TRUE,         \* the socketQueue.once(this.sid) listener is still registered
   drainAt |-> Null,       \* nCalls when the listener ran (history)
   drainTo |-> Null]       \* the socket the listener ran for (history)

\* Session.prototype.isAnonymous
isAnonymous(o) == sess[o].data.anonymous

\* SessionStore.prototype.getSession
getSession(uid) == userSessionIndex[uid]

\* ------------------------------------------------------------------- Init
InitRecs ==
  {NoRec} \cup
  [id : PresetIds, uid : Uids,
   lastActive : {Null, StartTime - MaxAge - 1, StartTime - TenSec - 1, StartTime},
   createdOn : {1}, anonymous : {FALSE}]

InitWith(caps) ==
  /\ now = StartTime
  /\ db \in [Ids -> InitRecs]
  /\ \A k \in Ids : db[k] # NoRec => db[k].id = k
  /\ sessionIndex = [k \in IndexKeys |-> Null]
  /\ userSessionIndex = [u \in Uids |-> Null]
  /\ socketIndex = [k \in Ids |-> Null]
  /\ sess = <<>>
  /\ sockets = <<>>
  /\ flows = <<>>
  /\ lastRun = Null
  /\ sweepPending = 1
  /\ sweeps = {}
  /\ nCalls = 0
  /\ nGen = 0
  /\ nOps = 0
  /\ cap = caps

Init == InitWith(Caps)

InitSock == InitWith(SockCaps)

InitSweep == InitWith(SweepCaps)

\* ------------------------------------------------------------------ flows
\* One entry per asynchronous call: where it is suspended and, once it has
\* called back, what it handed to the caller's callback.
NewFlow(kind, pc, sid, o, data, lsid) ==
  [kind |-> kind,        \* "create" | "save" | "fetch" | "remove"
   pc |-> pc,            \* the store call it waits for, or "done" / "threw"
   sid |-> sid,          \* createSession: the sid argument; fetch: the id queried
   o |-> o,              \* the Session object it works on
   data |-> data,        \* save / remove: the data being removed and inserted
   lsid |-> lsid,        \* save: its local variable sid
   cbs |-> 0,            \* times the caller's callback has been invoked
   cbErr |-> FALSE,      \* the callback's err argument is set
   cbSess |-> Null,      \* createSession: the session handed to the callback
   cbRec |-> NoRec,      \* save / fetch: the record handed to the callback
   storeErr |-> FALSE,   \* a PersistentStore call of this flow failed (history)
   bumped |-> Null,      \* createSession: the time it wrote as lastActive (history)
   seen |-> NoRec,       \* createSession: the record its find returned (history)
   seenAt |-> Null,      \* createSession: when its find returned (history)
   at |-> now,           \* when the call was issued (history)
   after |-> {g \in 1..Len(flows) : flows[g].pc \in {"done", "threw"}}]
                         \* the calls that had completed when it was issued (history)

\* The caller's callback fn(err, result) runs.
CallBack(fl, err, o, rec) ==
  [fl EXCEPT !.pc = "done", !.cbs = @ + 1, !.cbErr = err, !.cbSess = o, !.cbRec = rec]

\* A call or event from outside: the application calls in, a connection
\* arrives, the clock advances.
EnvOp ==
  /\ nOps < cap.ops
  /\ nOps' = nOps + 1

\* I/O callbacks run only when no process.nextTick callback is pending.
IoTurn == sweepPending = 0

\* createSession, lines 123-128: defer a sweep when the last one is over a minute old.
SweepDue == JsLt(lastRun, now - Minute)
ScheduleSweep ==
  /\ SweepDue => sweepPending < cap.pending
  /\ sweepPending' = IF SweepDue THEN sweepPending + 1 ELSE sweepPending

\* ------------------------------------------------- Session.prototype.remove
\* The synchronous part of remove(data, fn) for data with an id: lines 326-328.
IndexAfterRemove(idx, data) ==
  IF data.id = Null THEN idx ELSE [idx EXCEPT ![data.id] = Null]

UserIndexKept(uidx, data) == uidx

UserIndexDroppedByUid(uidx, data) ==
  IF data.uid = Null THEN uidx ELSE [uidx EXCEPT ![data.uid] = Null]

UserIndexAfterRemove(uidx, data) ==
  IF data.id = Null \/ data.uid = Null THEN uidx ELSE [uidx EXCEPT ![data.uid] = Null]

SocketIndexAfterRemove(sidx, data) ==
  IF data.id = Null THEN sidx ELSE [sidx EXCEPT ![data.id] = Null]

\* --------------------------------------------------- Session.prototype.save
SaveDataKeepsFlag(o, ss) ==
  IF ss[o].data.anonymous
    THEN [ss[o].data EXCEPT !.id = GenBase + nGen + 1]
    ELSE ss[o].data

\* save, lines 260-266: the clone that is removed and then inserted.
SaveData(o, ss) ==
  IF ss[o].data.anonymous
    THEN [ss[o].data EXCEPT !.anonymous = FALSE, !.id = GenBase + nGen + 1]
    ELSE ss[o].data

SaveLocalSid(o, ss) == IF ss[o].data.anonymous THEN GenBase + nGen + 1 ELSE Null

\* save(fn) up to its first suspension: lines 260-267 and the synchronous part
\* of remove(data, ...).  fl is the flow that continues in save, ss and six/uix
\* the sessions and indexes as the caller left them.
SaveBegin(f, fl, o, ss, six, uix) ==
  LET data == SaveData(o, ss) IN
  /\ ss[o].data.anonymous => nGen < MaxGen
  /\ nGen' = IF ss[o].data.anonymous THEN nGen + 1 ELSE nGen
  /\ sess' = ss
  /\ sessionIndex' = IndexAfterRemove(six, data)
  /\ userSessionIndex' = UserIndexAfterRemove(uix, data)
  /\ socketIndex' = SocketIndexAfterRemove(socketIndex, data)
  /\ flows' = [fl EXCEPT ![f] = [@ EXCEPT !.pc = IF data.id = Null THEN "ins" ELSE "rm",
                                           !.o = o, !.data = data,
                                           !.lsid = SaveLocalSid(o, ss)]]

\* ------------------------------------- SessionStore.prototype.createSession
\* createSession(fn): no sid, lines 119-121; the callback runs at once.
CreateAnonymous ==
  /\ EnvOp
  /\ Len(sess) < cap.sessions
  /\ sess' = Append(sess, NewSession(AnonRec, now))
  /\ ScheduleSweep
  /\ UNCHANGED <<now, db, sessionIndex, userSessionIndex, socketIndex, sockets, flows,
                 lastRun, sweeps, nCalls, nGen, cap>>

\* createSession(sid, fn), lines 96-97 and 123-128: the find is issued.
CreateSession(sid) ==
  /\ EnvOp
  /\ Len(flows) < cap.flows
  /\ flows' = Append(flows, NewFlow("create", "find", sid, Null, NoRec, Null))
  /\ ScheduleSweep
  /\ UNCHANGED <<now, db, sessionIndex, userSessionIndex, socketIndex, sess, sockets,
                 lastRun, sweeps, nCalls, nGen, cap>>

\* line 98: the find failed.
FindErr(f) ==
  /\ IoTurn
  /\ flows[f].kind = "create" /\ flows[f].pc = "find"
  /\ flows' = [flows EXCEPT ![f] = [CallBack(@, TRUE, Null, NoRec) EXCEPT !.storeErr = TRUE]]
  /\ UNCHANGED <<now, db, sessionIndex, userSessionIndex, socketIndex, sess, sockets,
                 lastRun, sweepPending, sweeps, nCalls, nGen, nOps, cap>>

StaleOnlyWhenAbsent(s) == s = NoRec

\* line 99: the record is absent or older than maxAge.
Stale(s) == s = NoRec \/ JsLt(s.lastActive, now - MaxAge)

LookupSidKept(s0, sid) == sid

\* line 101: the sid is dropped together with a stale record.
LookupSid(s0, sid) == IF Stale(s0) THEN Null ELSE sid

\* line 109: the lastActive write is due.
BumpDue(data) ==
  ~data.anonymous /\ (data.lastActive = Null \/ data.lastActive < now - TenSec)

\* lines 99-117: the find answered with the record s (NoRec: nothing found).
FindOk(f) ==
  /\ IoTurn
  /\ flows[f].kind = "create" /\ flows[f].pc = "find"
  /\ LET s0 == StoreFirst(db, flows[f].sid)
         s == IF Stale(s0) THEN AnonRec ELSE s0
         sid == LookupSid(s0, flows[f].sid)
         cached == IF sid = Null THEN Null ELSE sessionIndex[sid]
         o == IF cached # Null THEN cached ELSE Len(sess) + 1
         ss1 == IF cached # Null THEN sess ELSE Append(sess, NewSession(s, now))
         six == IF sid = Null THEN sessionIndex ELSE [sessionIndex EXCEPT ![sid] = o]
         uix == IF s.uid = Null THEN userSessionIndex ELSE [userSessionIndex EXCEPT ![s.uid] = o]
     IN
     /\ cached = Null => Len(sess) < cap.sessions
     /\ IF BumpDue(ss1[o].data)
          THEN SaveBegin(f, [flows EXCEPT ![f] = [@ EXCEPT !.bumped = now, !.seen = s0,
                                                            !.seenAt = now]], o,
                         [ss1 EXCEPT ![o].data.lastActive = now], six, uix)
          ELSE /\ flows' = [flows EXCEPT ![f] = [CallBack(@, FALSE, o, NoRec)
                                                    EXCEPT !.seen = s0, !.seenAt = now]]
               /\ sess' = ss1
               /\ sessionIndex' = six
               /\ userSessionIndex' = uix
               /\ UNCHANGED <<socketIndex, nGen>>
  /\ UNCHANGED <<now, db, sockets, lastRun, sweepPending, sweeps,
                 nCalls, nOps, cap>>

\* --------------------------------------------------- Session.prototype.save
\* The application calls o.save(fn).
Save(o) ==
  /\ EnvOp
  /\ Len(flows) < cap.flows
  /\ o \in 1..Len(sess)
  /\ SaveBegin(Len(flows) + 1,
               Append(flows, NewFlow("save", "rm", Null, o, NoRec, Null)),
               o, sess, sessionIndex, userSessionIndex)
  /\ UNCHANGED <<now, db, sockets, lastRun, sweepPending, sweeps,
                 nCalls, cap>>

\* What save's callback fn(err, res) does for the caller: createSession's
\* wrapper on lines 112-114 ignores both arguments and hands over the session.
SaveCallBack(fl, err, res) ==
  IF fl.kind = "create"
    THEN [CallBack(fl, FALSE, fl.o, NoRec) EXCEPT !.storeErr = @ \/ err]
    ELSE [CallBack(fl, err, Null, res) EXCEPT !.storeErr = @ \/ err]

\* line 268: the remove issued by save failed.
SaveRemoveErr(f) ==
  /\ IoTurn
  /\ flows[f].pc = "rm"
  /\ flows' = [flows EXCEPT ![f] = SaveCallBack(@, TRUE, NoRec)]
  /\ UNCHANGED <<now, db, sessionIndex, userSessionIndex, socketIndex, sess, sockets,
                 lastRun, sweepPending, sweeps, nCalls, nGen, nOps, cap>>

\* line 269: the remove issued by save succeeded; the insert is issued.
SaveRemoveOk(f) ==
  /\ IoTurn
  /\ flows[f].pc = "rm"
  /\ db' = StoreRemove(db, flows[f].data.id)
  /\ flows' = [flows EXCEPT ![f].pc = "ins"]
  /\ UNCHANGED <<now, sessionIndex, userSessionIndex, socketIndex, sess, sockets,
                 lastRun, sweepPending, sweeps, nCalls, nGen, nOps, cap>>

\* line 278 with err set: the insert failed.
SaveInsertErr(f) ==
  /\ IoTurn
  /\ flows[f].pc = "ins"
  /\ flows' = [flows EXCEPT ![f] = SaveCallBack(@, TRUE, NoRec)]
  /\ UNCHANGED <<now, db, sessionIndex, userSessionIndex, socketIndex, sess, sockets,
                 lastRun, sweepPending, sweeps, nCalls, nGen, nOps, cap>>

\* The key JavaScript uses for sessionIndex[sid]: undefined becomes "undefined".
IndexKey(sid) == IF sid = Null THEN UndefKey ELSE sid

UserIndexFirstWins(uidx, res, o) ==
  IF res.uid = Null \/ uidx[res.uid] # Null THEN uidx ELSE [uidx EXCEPT ![res.uid] = o]

\* lines 273-275: the session is indexed by the uid of the stored record.
UserIndexAfterSave(uidx, res, o) ==
  IF res.uid = Null THEN uidx ELSE [uidx EXCEPT ![res.uid] = o]

\* lines 270-278: the insert succeeded with the stored record res.
SaveInsertOk(f) ==
  /\ IoTurn
  /\ flows[f].pc = "ins"
  /\ flows[f].data.id # Null               \* a session that is not anonymous has an id
  /\ db[flows[f].data.id] = NoRec          \* ids are unique in the store
  /\ LET res == flows[f].data
         o == flows[f].o
     IN
     /\ db' = StoreInsert(db, res)
     /\ sess' = [sess EXCEPT ![o].data = res, ![o].sid = res.id]
     /\ sessionIndex' = [sessionIndex EXCEPT ![IndexKey(flows[f].lsid)] = o]
     /\ userSessionIndex' = UserIndexAfterSave(userSessionIndex, res, o)
     /\ flows' = [flows EXCEPT ![f] = SaveCallBack(@, FALSE, res)]
  /\ UNCHANGED <<now, socketIndex, sockets, lastRun, sweepPending, sweeps,
                 nCalls, nGen, nOps, cap>>

\* ---------------------------------------------------- Session.prototype.set
\* set(object) for an object read from the store: every key the record has
\* is copied (stored records carry no anonymous key).
Merge(data, rec) ==
  [id |-> IF rec.id # Null THEN rec.id ELSE data.id,
   uid |-> IF rec.uid # Null THEN rec.uid ELSE data.uid,
   lastActive |-> IF rec.lastActive # Null THEN rec.lastActive ELSE data.lastActive,
   createdOn |-> IF rec.createdOn # Null THEN rec.createdOn ELSE data.createdOn,
   anonymous |-> data.anonymous]

\* The application calls o.set({uid: u}).
Set(o, u) ==
  /\ EnvOp
  /\ o \in 1..Len(sess)
  /\ sess' = [sess EXCEPT ![o].data.uid = u]
  /\ UNCHANGED <<now, db, sessionIndex, userSessionIndex, socketIndex, sockets, flows,
                 lastRun, sweepPending, sweeps, nCalls, nGen, cap>>

\* -------------------------------------------------- Session.prototype.fetch
\* The application calls o.fetch(fn) on a session that has an id: line 293.
Fetch(o) ==
  /\ EnvOp
  /\ Len(flows) < cap.flows
  /\ o \in 1..Len(sess)
  /\ sess[o].data.id # Null
  /\ flows' = Append(flows, NewFlow("fetch", "first", sess[o].data.id, o, NoRec, Null))
  /\ UNCHANGED <<now, db, sessionIndex, userSessionIndex, socketIndex, sess, sockets,
                 lastRun, sweepPending, sweeps, nCalls, nGen, cap>>

\* lines 294-295 when first() found the record: it is merged and fn is called.
FirstFound(f) ==
  /\ IoTurn
  /\ flows[f].kind = "fetch" /\ flows[f].pc = "first"
  /\ StoreFirst(db, flows[f].sid) # NoRec
  /\ LET data == StoreFirst(db, flows[f].sid) IN
     /\ sess' = [sess EXCEPT ![flows[f].o].data = Merge(@, data)]
     /\ flows' = [flows EXCEPT ![f] = CallBack(@, FALSE, Null, data)]
  /\ UNCHANGED <<now, db, sessionIndex, userSessionIndex, socketIndex, sockets,
                 lastRun, sweepPending, sweeps, nCalls, nGen, nOps, cap>>

\* line 294 when first() found nothing: set(null) throws in Object.keys,
\* before line 295 is reached.
FirstAbsent(f) ==
  /\ IoTurn
  /\ flows[f].kind = "fetch" /\ flows[f].pc = "first"
  /\ StoreFirst(db, flows[f].sid) = NoRec
  /\ flows' = [flows EXCEPT ![f].pc = "threw"]
  /\ UNCHANGED <<now, db, sessionIndex, userSessionIndex, socketIndex, sess, sockets,
                 lastRun, sweepPending, sweeps, nCalls, nGen, nOps, cap>>

\* line 294 when first() failed: data is undefined and set(undefined) throws.
FirstErr(f) ==
  /\ IoTurn
  /\ flows[f].kind = "fetch" /\ flows[f].pc = "first"
  /\ flows' = [flows EXCEPT ![f] = [@ EXCEPT !.pc = "threw", !.storeErr = TRUE]]
  /\ UNCHANGED <<now, db, sessionIndex, userSessionIndex, socketIndex, sess, sockets,
                 lastRun, sweepPending, sweeps, nCalls, nGen, nOps, cap>>

\* ------------------------------------------------- Session.prototype.remove
\* The data the application removes: o.remove(fn) takes this.data (lines
\* 316-319), o.remove(data, fn) is called with data that has a uid and no id.
RemoveArgs(o) == {sess[o].data} \cup {[NoRec EXCEPT !.uid = u] : u \in Uids}

\* The application calls o.remove(fn) or o.remove(data, fn).
Remove(o, data) ==
  /\ EnvOp
  /\ Len(flows) < cap.flows
  /\ o \in 1..Len(sess)
  /\ LET fl == NewFlow("remove", "del", Null, o, data, Null)
     IN
     /\ flows' = Append(flows, IF data.id = Null THEN CallBack(fl, FALSE, Null, NoRec) ELSE fl)
     /\ sessionIndex' = IndexAfterRemove(sessionIndex, data)
     /\ userSessionIndex' = UserIndexAfterRemove(userSessionIndex, data)
     /\ socketIndex' = SocketIndexAfterRemove(socketIndex, data)
  /\ UNCHANGED <<now, db, sess, sockets, lastRun, sweepPending, sweeps,
                 nCalls, nGen, cap>>

\* line 330: the store's remove succeeded and calls fn.
RemoveOk(f) ==
  /\ IoTurn
  /\ flows[f].pc = "del"
  /\ db' = StoreRemove(db, flows[f].data.id)
  /\ flows' = [flows EXCEPT ![f] = CallBack(@, FALSE, Null, NoRec)]
  /\ UNCHANGED <<now, sessionIndex, userSessionIndex, socketIndex, sess, sockets,
                 lastRun, sweepPending, sweeps, nCalls, nGen, nOps, cap>>

\* line 330: the store's remove failed and calls fn(err).
RemoveErr(f) ==
  /\ IoTurn
  /\ flows[f].pc = "del"
  /\ flows' = [flows EXCEPT ![f] = [CallBack(@, TRUE, Null, NoRec) EXCEPT !.storeErr = TRUE]]
  /\ UNCHANGED <<now, db, sessionIndex, userSessionIndex, socketIndex, sess, sockets,
                 lastRun, sweepPending, sweeps, nCalls, nGen, nOps, cap>>

\* ------------------------------------------------------- the socket queue
\* The once listener of session o, lines 219-232: the bind queue is replayed
\* onto the socket, then the emit queue.
DrainEmitsFirst(log, o) == log \o sess[o].emitQueue \o sess[o].bindQueue

Drain(log, o) == log \o sess[o].bindQueue \o sess[o].emitQueue

\* socketQueue.emit(sid, socket): the listeners registered for sid run in the
\* order they were registered, which is the order of construction.
RECURSIVE EmitToListeners(_, _, _)
EmitToListeners(log, sid, i) ==
  IF i > Len(sess) THEN log
  ELSE EmitToListeners(IF sess[i].armed /\ sess[i].csid = sid
                         THEN Drain(log, i) ELSE log,
                       sid, i + 1)

\* The ids a client can send in its cookie: preset ones and generated ones.
KnownIds == PresetIds \cup {GenBase + k : k \in 1..nGen}

\* sockets.on('connection'), lines 36-47, for a socket whose cookie carries sid.
Connection(sid) ==
  /\ EnvOp
  /\ IoTurn
  /\ Len(sockets) < cap.sockets
  /\ sid \in KnownIds
  /\ socketIndex' = [socketIndex EXCEPT ![sid] = Len(sockets) + 1]
  /\ sockets' = Append(sockets, EmitToListeners(<<>>, sid, 1))
  /\ sess' = [o \in 1..Len(sess) |->
                IF sess[o].armed /\ sess[o].csid = sid
                  THEN [sess[o] EXCEPT !.armed = FALSE, !.drainAt = nCalls,
                                        !.drainTo = Len(sockets) + 1]
                  ELSE sess[o]]
  /\ UNCHANGED <<now, db, sessionIndex, userSessionIndex, flows, lastRun, sweepPending,
                 sweeps, nCalls, nGen, cap>>

\* sockets[sid] as the faux socket of session o reads it.
RealSocket(o) == IF sess[o].csid = Null THEN Null ELSE socketIndex[sess[o].csid]

\* socketWrapper.on / socketWrapper.emit, lines 168-190: the call goes to the
\* real socket when there is one, and to the queue of its kind otherwise.
WrapperCall(o, kind) ==
  /\ EnvOp
  /\ nCalls < cap.calls
  /\ o \in 1..Len(sess)
  /\ nCalls' = nCalls + 1
  /\ LET call == [o |-> o, kind |-> kind, n |-> nCalls + 1] IN
     IF RealSocket(o) # Null
       THEN /\ sockets' = [sockets EXCEPT ![RealSocket(o)] = Append(@, call)]
            /\ sess' = sess
       ELSE /\ sess' = IF kind = "on"
                         THEN [sess EXCEPT ![o].bindQueue = Append(@, call)]
                         ELSE [sess EXCEPT ![o].emitQueue = Append(@, call)]
            /\ sockets' = sockets
  /\ UNCHANGED <<now, db, sessionIndex, userSessionIndex, socketIndex, flows, lastRun,
                 sweepPending, sweeps, nGen, cap>>

On(o) == WrapperCall(o, "on")

Emit(o) == WrapperCall(o, "emit")

\* ------------------------------ SessionStore.prototype.cleanupInactiveSessions
SweepRunKeepsLastRun ==
  /\ sweepPending > 0
  /\ sweepPending' = sweepPending - 1
  /\ sweeps' = sweeps \cup {now - MaxAge}
  /\ UNCHANGED <<now, db, sessionIndex, userSessionIndex, socketIndex, sess, sockets,
                 flows, lastRun, nCalls, nGen, nOps, cap>>

\* A deferred sweep runs, lines 63-75: the delete is issued, lastRun is set.
SweepRun ==
  /\ sweepPending > 0
  /\ sweepPending' = sweepPending - 1
  /\ sweeps' = sweeps \cup {now - MaxAge}
  /\ lastRun' = now
  /\ UNCHANGED <<now, db, sessionIndex, userSessionIndex, socketIndex, sess, sockets,
                 flows, nCalls, nGen, nOps, cap>>

\* The store executes a sweep's delete.
SweepDeleteOk(th) ==
  /\ IoTurn
  /\ th \in sweeps
  /\ sweeps' = sweeps \ {th}
  /\ db' = StoreSweep(db, th)
  /\ UNCHANGED <<now, sessionIndex, userSessionIndex, socketIndex, sess, sockets, flows,
                 lastRun, sweepPending, nCalls, nGen, nOps, cap>>

\* The store fails a sweep's delete: lines 70-72 log the error.
SweepDeleteErr(th) ==
  /\ IoTurn
  /\ th \in sweeps
  /\ sweeps' = sweeps \ {th}
  /\ UNCHANGED <<now, db, sessionIndex, userSessionIndex, socketIndex, sess, sockets,
                 flows, lastRun, sweepPending, nCalls, nGen, nOps, cap>>

\* ------------------------------------------------------------------ clock
Tick ==
  /\ EnvOp
  /\ now < StartTime + cap.ticks
  /\ now' = now + 1
  /\ UNCHANGED <<db, sessionIndex, userSessionIndex, socketIndex, sess, sockets, flows,
                 lastRun, sweepPending, sweeps, nCalls, nGen, cap>>

\* ------------------------------------------------------------------- Next
Next ==
  \/ CreateAnonymous
  \/ \E sid \in KnownIds : CreateSession(sid)
  \/ \E f \in DOMAIN flows : FindErr(f)
  \/ \E f \in DOMAIN flows : FindOk(f)
  \/ \E o \in DOMAIN sess : Save(o)
  \/ \E f \in DOMAIN flows : SaveRemoveErr(f)
  \/ \E f \in DOMAIN flows : SaveRemoveOk(f)
  \/ \E f \in DOMAIN flows : SaveInsertErr(f)
  \/ \E f \in DOMAIN flows : SaveInsertOk(f)
  \/ \E o \in DOMAIN sess, u \in Uids : Set(o, u)
  \/ \E o \in DOMAIN sess : Fetch(o)
  \/ \E f \in DOMAIN flows : FirstFound(f)
  \/ \E f \in DOMAIN flows : FirstAbsent(f)
  \/ \E f \in DOMAIN flows : FirstErr(f)
  \/ \E o \in DOMAIN sess : \E data \in RemoveArgs(o) : Remove(o, data)
  \/ \E f \in DOMAIN flows : RemoveOk(f)
  \/ \E f \in DOMAIN flows : RemoveErr(f)
  \/ \E sid \in KnownIds : Connection(sid)
  \/ \E o \in DOMAIN sess : On(o)
  \/ \E o \in DOMAIN sess : Emit(o)
  \/ SweepRun
  \/ \E th \in sweeps : SweepDeleteOk(th)
  \/ \E th \in sweeps : SweepDeleteErr(th)
  \/ Tick

Spec == Init /\ [][Next]_vars

SpecSock == InitSock /\ [][Next]_vars

SpecSweep == InitSweep /\ [][Next]_vars

TypeOK ==
  /\ now \in StartTime..(StartTime + cap.ticks)
  /\ Len(flows) <= cap.flows
  /\ Len(sess) <= cap.sessions
  /\ Len(sockets) <= cap.sockets
  /\ nOps <= cap.ops

\* ================================================================ claims
Range(q) == {q[i] : i \in DOMAIN q}

\* the calls of queue q that were issued before session o's listener ran
Buffered(o, q) == SelectSeq(q, LAMBDA c : c.n <= sess[o].drainAt)

\* the calls socket k received that sit in one of session o's queues
Replayed(o, k) ==
  SelectSeq(sockets[k], LAMBDA c : c \in Range(sess[o].bindQueue) \cup Range(sess[o].emitQueue))

\* C1: the subscribe and emit calls a Session with an id buffered before the
\* first connection carrying its id arrived are applied to that connection,
\* the subscribe calls in their order and then the emit calls in their
\* order, each exactly once; no other connection ever receives a buffered call.
C1_ReplayOnceInOrder ==
  \A o \in DOMAIN sess :
    sess[o].csid # Null =>
      \A k \in DOMAIN sockets :
        Replayed(o, k) =
          IF ~sess[o].armed /\ k = sess[o].drainTo
            THEN Buffered(o, sess[o].bindQueue) \o Buffered(o, sess[o].emitQueue)
            ELSE <<>>

\* Two subscribe calls and an emit call were buffered, replayed onto the
\* first connection, and a second connection carrying the same id has arrived.
C1_Witness ==
  \E o \in DOMAIN sess :
    /\ sess[o].csid # Null /\ ~sess[o].armed
    /\ Len(Buffered(o, sess[o].bindQueue)) = 2
    /\ Len(Buffered(o, sess[o].emitQueue)) = 1
    /\ sess[o].drainTo = 1
    /\ Len(sockets) = 2
    /\ socketIndex[sess[o].csid] = 2

\* C2: once the listener of a Session has run for a connection, no later
\* step appends to its bind or emit queue.
C2_NeverBufferedAfterAttach ==
  [][\A o \in DOMAIN sess :
       (sess[o].csid # Null /\ ~sess[o].armed) =>
          /\ sess'[o].bindQueue = sess[o].bindQueue
          /\ sess'[o].emitQueue = sess[o].emitQueue]_vars

\* the find of createSession flow f answers (without error) in this step
FindAnswers(f) ==
  /\ flows[f].kind = "create" /\ flows[f].pc = "find"
  /\ flows'[f].pc # "find"
  /\ ~flows'[f].storeErr

\* flow f calls back in this step with an anonymous session that has no id
\* and sits in neither index
CallsBackAnonymous(f) ==
  /\ flows'[f].pc = "done" /\ flows'[f].cbs = 1 /\ ~flows'[f].cbErr
  /\ flows'[f].cbSess \in DOMAIN sess'
  /\ LET o == flows'[f].cbSess IN
     /\ sess'[o].data.anonymous
     /\ sess'[o].data.id = Null
     /\ sess'[o].sid = Null
     /\ \A k \in DOMAIN sessionIndex' : sessionIndex'[k] # o
     /\ \A u \in DOMAIN userSessionIndex' : userSessionIndex'[u] # o

\* C3: when the find of createSession(sid) returns no record, or a record
\* whose lastActive is older than maxAge, the callback receives an anonymous
\* session without id that is registered in neither index.
C3_StaleSidIsAnonymous ==
  [][\A f \in DOMAIN flows :
       LET s == db[flows[f].sid] IN
       (FindAnswers(f) /\ (s = NoRec \/ (s.lastActive # Null /\ s.lastActive < now - MaxAge)))
          => CallsBackAnonymous(f)]_vars

\* A createSession(sid) was demoted to anonymous while the SessionIndex still
\* holds a Session object under sid.
C3_Witness ==
  \E f \in DOMAIN flows :
    /\ flows[f].kind = "create" /\ flows[f].pc = "done" /\ ~flows[f].cbErr
    /\ flows[f].seenAt # Null
    /\ flows[f].seen = NoRec \/ JsLt(flows[f].seen.lastActive, flows[f].seenAt - MaxAge)
    /\ sess[flows[f].cbSess].data.anonymous
    /\ sessionIndex[flows[f].sid] # Null

\* C4: when the find of createSession(sid) returns a record that has no
\* lastActive field, the callback receives an anonymous session without id.
C4_MissingLastActiveIsAnonymous ==
  [][\A f \in DOMAIN flows :
       LET s == db[flows[f].sid] IN
       (FindAnswers(f) /\ s # NoRec /\ s.lastActive = Null) => CallsBackAnonymous(f)]_vars

\* the insert of save flow f, issued for an anonymous session, succeeds in this step
AnonymousSaveSucceeds(f) ==
  /\ flows[f].kind = "save" /\ flows[f].pc = "ins" /\ flows[f].lsid # Null
  /\ flows'[f].pc = "done" /\ ~flows'[f].cbErr

\* C5: a successful save() of an anonymous session S calls back with a record
\* that has a newly generated id and no anonymous flag; S is then not
\* anonymous, the store holds that record under the new id, and getSession of
\* S's uid (if it has one) is S.
C5_AnonymousSave ==
  [][\A f \in DOMAIN flows :
       AnonymousSaveSucceeds(f) =>
         LET res == flows'[f].cbRec
             S == flows[f].o
         IN
         /\ flows'[f].cbs = 1
         /\ res.id # Null /\ res.id \notin PresetIds
         /\ db[res.id] = NoRec
         /\ \A o \in DOMAIN sess : sess[o].data.id # res.id
         /\ \A g \in DOMAIN flows : g # f => flows[g].data.id # res.id
         /\ ~res.anonymous
         /\ ~sess'[S].data.anonymous
         /\ sess'[S].data = res
         /\ db'[res.id] = res
         /\ \A k \in DOMAIN db' : db'[k] = res => k = res.id
         /\ res.uid # Null => userSessionIndex'[res.uid] = S]_vars

\* An anonymous session with a uid was saved: getSession(uid) is that session.
C5_Witness ==
  \E f \in DOMAIN flows :
    /\ flows[f].kind = "save" /\ flows[f].pc = "done" /\ ~flows[f].cbErr
    /\ flows[f].lsid # Null
    /\ flows[f].cbRec.uid # Null
    /\ getSession(flows[f].cbRec.uid) = flows[f].o
    /\ db[flows[f].lsid] = flows[f].cbRec

\* flow g had completed when flow f was issued
IssuedAfter(f, g) == g \in flows[f].after

\* remove flow f, for data with an id and a uid, has called back without error
RemoveCompleted(f) ==
  /\ flows[f].kind = "remove" /\ flows[f].pc = "done" /\ ~flows[f].cbErr
  /\ flows[f].data.id # Null /\ flows[f].data.uid # Null

Purged(f) ==
  /\ getSession(flows[f].data.uid) = Null
  /\ StoreFirst(db, flows[f].data.id) = NoRec

\* C6, as claimed: once remove() has completed, and as long as no call has
\* been issued since, getSession(uid) and first({id}) find nothing, whatever
\* createSession and save flows were in flight.
C6_RemovedStaysRemoved ==
  \A f \in DOMAIN flows :
    (RemoveCompleted(f) /\ \A g \in DOMAIN flows : ~IssuedAfter(g, f)) => Purged(f)

\* C6, amended: once remove() has completed, getSession(uid) and first({id})
\* find nothing provided every createSession and save call had completed
\* before remove() was called and none has been issued since.
C6_RemovedWhenAlone ==
  \A f \in DOMAIN flows :
    (RemoveCompleted(f) /\
     \A g \in DOMAIN flows :
        flows[g].kind \in {"create", "save"} => IssuedAfter(f, g))
      => Purged(f)

\* A session obtained from createSession(sid) was removed with nothing else
\* in flight.
C6_Witness ==
  \E f \in DOMAIN flows :
    /\ RemoveCompleted(f)
    /\ \A g \in DOMAIN flows : flows[g].kind \in {"create", "save"} => IssuedAfter(f, g)
    /\ \E g \in DOMAIN flows : flows[g].kind = "create" /\ flows[g].cbSess = flows[f].o
    /\ Purged(f)

\* C7: two createSession(sid) calls issued within 10 s of each other never
\* both perform the lastActive write.
C7_OneWritePerTenSeconds ==
  \A f, g \in DOMAIN flows :
    (/\ f < g
     /\ flows[f].kind = "create" /\ flows[g].kind = "create"
     /\ flows[f].sid = flows[g].sid
     /\ flows[g].at - flows[f].at <= TenSec)
      => ~(flows[f].bumped # Null /\ flows[g].bumped # Null)

\* the find of createSession flow f returned a record that is not older than maxAge
SawFresh(f) ==
  /\ flows[f].seenAt # Null
  /\ flows[f].seen # NoRec
  /\ ~JsLt(flows[f].seen.lastActive, flows[f].seenAt - MaxAge)

\* C8: of two createSession(sid) calls for a fresh record, the second issued
\* after the first has called back, nothing else being called and no store
\* call failing, the second hands its callback the Session object the first
\* one handed out.
C8_SecondCallReusesSession ==
  \A f, g \in DOMAIN flows :
    (/\ \A h \in DOMAIN flows : flows[h].kind = "create"
     /\ f < g /\ IssuedAfter(g, f)
     /\ flows[f].sid = flows[g].sid
     /\ flows[f].pc = "done" /\ flows[g].pc = "done"
     /\ ~flows[f].cbErr /\ ~flows[g].cbErr
     /\ ~flows[f].storeErr /\ ~flows[g].storeErr
     /\ SawFresh(f) /\ SawFresh(g))
      => flows[g].cbSess = flows[f].cbSess

\* C9: a createSession(sid) call during which a PersistentStore call failed
\* hands the error to its callback, never a null error and a session.
C9_StoreErrorsReachCallback ==
  \A f \in DOMAIN flows :
    (flows[f].kind = "create" /\ flows[f].pc = "done" /\ flows[f].storeErr)
      => (flows[f].cbErr /\ flows[f].cbSess = Null)

\* C10: fetch(cb) never aborts before reaching cb, and calls it exactly once.
C10_FetchAlwaysCallsBack ==
  \A f \in DOMAIN flows :
    flows[f].kind = "fetch" =>
      /\ flows[f].pc \in {"first", "done"}
      /\ flows[f].pc = "done" => flows[f].cbs = 1

\* the application calls remove in this step, as flow f, for data without an id
RemoveOfIdLess(f) ==
  /\ f = Len(flows) + 1 /\ f \in DOMAIN flows'
  /\ flows'[f].kind = "remove"
  /\ flows'[f].data.id = Null

\* C11: remove() for data without an id calls back at once with no error,
\* issues no store call and leaves the SessionIndex, the UserIndex, the
\* socket index and the store untouched.
C11_RemoveWithoutIdIsNoOp ==
  [][\A f \in 1..(Len(flows) + 1) :
       RemoveOfIdLess(f) =>
         /\ flows'[f].pc = "done" /\ flows'[f].cbs = 1 /\ ~flows'[f].cbErr
         /\ \A g \in DOMAIN flows : flows'[g] = flows[g]
         /\ UNCHANGED <<db, sessionIndex, userSessionIndex, socketIndex, sweeps>>]_vars

\* remove(data, fn) was called with id-less data whose uid is held by the
\* UserIndex, and the entry is still there.
C11_Witness ==
  \E f \in DOMAIN flows :
    /\ flows[f].kind = "remove" /\ flows[f].pc = "done" /\ ~flows[f].cbErr
    /\ flows[f].data.id = Null /\ flows[f].data.uid # Null
    /\ userSessionIndex[flows[f].data.uid] # Null
    /\ \E k \in DOMAIN sessionIndex : sessionIndex[k] # Null

\* cleanupInactiveSessions runs in this step
SweepRuns == sweepPending' < sweepPending

\* the store answers the delete of a sweep in this step, with or without error
SweepDeleteAnswers == sweepPending' = sweepPending /\ sweeps' # sweeps

\* C12: the answer to a sweep's delete, failed or not, reaches no callback of
\* a createSession / save / fetch / remove call and leaves lastRun alone;
\* every run of the sweep sets lastRun to the current time, before the
\* delete is answered.
C12_SweepFailureIsSilent ==
  [][/\ SweepDeleteAnswers => (flows' = flows /\ lastRun' = lastRun)
     /\ SweepRuns => (flows' = flows /\ lastRun' = now)]_vars

\* A sweep's delete failed (a record without lastActive survived it), lastRun
\* is set, and a createSession has called back without error.
C12_Witness ==
  /\ sweeps = {} /\ sweepPending = 0 /\ lastRun # Null
  /\ \E k \in DOMAIN db : db[k] # NoRec /\ db[k].lastActive = Null
  /\ \E f \in DOMAIN flows :
       flows[f].kind = "create" /\ flows[f].pc = "done" /\ ~flows[f].cbErr /\ ~flows[f].storeErr

\* the insert of a save (called by the application or by createSession)
\* succeeds in this step
SaveSucceeds(f) ==
  /\ flows[f].pc = "ins" /\ flows'[f].pc = "done"
  /\ ~flows'[f].storeErr

\* C13: after a successful save of session S, anonymous before or not, the
\* SessionIndex maps S's id to S, the UserIndex maps S's uid (if set) to S,
\* and S's data is the record the insert stored.
C13_SaveRegistersSession ==
  [][\A f \in DOMAIN flows :
       SaveSucceeds(f) =>
         LET S == flows[f].o
             res == sess'[S].data
         IN
         /\ res.id # Null
         /\ res = db'[res.id]
         /\ sessionIndex'[res.id] = S
         /\ res.uid # Null => userSessionIndex'[res.uid] = S]_vars

\* flow g is a save (called by the application or by createSession) whose
\* insert has succeeded
Saved(g) ==
  /\ flows[g].kind \in {"save", "create"}
  /\ flows[g].pc = "done" /\ ~flows[g].storeErr
  /\ flows[g].data.id # Null

\* C14: the lastActive a save persists for an id is never lower than the
\* lastActive an earlier save persisted for that id.
C14_LastActiveNeverDecreases ==
  [][\A f \in DOMAIN flows :
       SaveSucceeds(f) =>
         \A g \in DOMAIN flows :
           (Saved(g) /\ flows[g].data.id = flows[f].data.id)
             => flows[g].data.lastActive <= flows[f].data.lastActive]_vars

\* the Session objects the SessionIndex or the UserIndex hold
Cached ==
  ({sessionIndex[k] : k \in DOMAIN sessionIndex} \cup
   {userSessionIndex[u] : u \in DOMAIN userSessionIndex}) \ {Null}

\* C15: two Session objects held by the SessionIndex or the UserIndex never
\* carry the same session id.
C15_OneCachedSessionPerId ==
  \A o1, o2 \in Cached :
    (sess[o1].data.id # Null /\ sess[o1].data.id = sess[o2].data.id) => o1 = o2

\* flows f and g were in flight at the same time
Concurrent(f, g) == f # g /\ ~IssuedAfter(f, g) /\ ~IssuedAfter(g, f)

\* C16: when the insert of a save succeeds after the insert of a concurrent
\* save of another session with the same uid has succeeded, the UserIndex
\* entry of that uid is the session of the save that completes now.
C16_LastSaveWinsUserIndex ==
  [][\A f, g \in DOMAIN flows :
       (/\ SaveSucceeds(f) /\ Saved(g) /\ Concurrent(f, g)
        /\ flows[f].o # flows[g].o
        /\ flows[f].data.uid # Null /\ flows[f].data.uid = flows[g].data.uid)
         => userSessionIndex'[flows[f].data.uid] = flows[f].o]_vars

\* Two concurrent saves of distinct sessions with the same uid have both
\* succeeded; getSession(uid) is the session of one of them, and the other
\* session holds the record its own save stored.
C16_Witness ==
  \E f, g \in DOMAIN flows :
    /\ Saved(f) /\ Saved(g) /\ Concurrent(f, g)
    /\ flows[f].o # flows[g].o
    /\ flows[f].data.uid # Null /\ flows[f].data.uid = flows[g].data.uid
    /\ getSession(flows[f].data.uid) = flows[f].o
    /\ sess[flows[g].o].data = flows[g].data

\* C17: a session whose anonymous flag is set has no id and is held by
\* neither the SessionIndex nor the UserIndex.
C17_AnonymousIsInvisible ==
  \A o \in DOMAIN sess :
    sess[o].data.anonymous => (sess[o].data.id = Null /\ o \notin Cached)

\* An anonymous session was given a uid with set() and its save failed,
\* while another Session object is cached.
C17_Witness ==
  \E o \in DOMAIN sess :
    /\ sess[o].data.anonymous /\ sess[o].data.uid # Null
    /\ \E f \in DOMAIN flows :
         flows[f].kind = "save" /\ flows[f].o = o /\ flows[f].pc = "done" /\ flows[f].cbErr
    /\ Cached # {}

\* rec is a record that is not older than maxAge
Fresh(rec) == rec # NoRec /\ ~JsLt(rec.lastActive, now - MaxAge)

\* the identity sid is live: its fresh record is in the store, or the save of
\* a createSession that found it (with a lastActive no sweep matches) has
\* removed it and is about to insert it again
LiveIdentity(sid) ==
  \/ Fresh(StoreFirst(db, sid))
  \/ \E g \in DOMAIN flows :
       /\ flows[g].kind = "create" /\ flows[g].pc = "ins" /\ flows[g].data.id = sid
       /\ Fresh(flows[g].seen) /\ flows[g].seen.lastActive # Null
       /\ Fresh(flows[g].data)

\* the session createSession flow f has settled on after this step
ResolvedSession(f) == IF flows'[f].pc = "done" THEN flows'[f].cbSess ELSE flows'[f].o

\* C18: as long as the application has called no remove(), a createSession(sid)
\* whose find answers while the identity sid is live resolves to a session
\* that is not anonymous and carries the id sid, also while a save of that
\* id is between its remove and its insert.
C18_NoDemotionDuringSave ==
  [][\A f \in DOMAIN flows :
       (/\ FindAnswers(f)
        /\ \A h \in DOMAIN flows : flows[h].kind # "remove"
        /\ LiveIdentity(flows[f].sid))
         => /\ ResolvedSession(f) \in DOMAIN sess'
            /\ ~sess'[ResolvedSession(f)].data.anonymous
            /\ sess'[ResolvedSession(f)].data.id = flows[f].sid]_vars

\* C19: a call on the socket wrapper of a Session that was created anonymous
\* and has been saved under an id is not buffered while a connection carrying
\* that id is registered: it is applied to the connection at once.
C19_SavedAnonymousIsBound ==
  [][\A o \in DOMAIN sess :
       (/\ sess[o].csid = Null /\ sess[o].sid # Null
        /\ socketIndex[sess[o].sid] # Null)
         => /\ sess'[o].bindQueue = sess[o].bindQueue
            /\ sess'[o].emitQueue = sess[o].emitQueue]_vars

\* C20: a sweep that createSession has deferred (every sweep but the
\* constructor's, which runs while lastRun is still unset) runs at least a
\* minute after the sweep before it.
C20_SweepsAMinuteApart ==
  [][(SweepRuns /\ lastRun # Null) => now - lastRun >= Minute]_vars

====
